---- MODULE Spec2Model ----
(***************************************************************************)
(* PlotlyFormatter (src/plotly_formatter/formatter.py).                    *)
(*                                                                         *)
(* Python mappings are objects: a font option handed to the constructor is *)
(* stored by reference, and the constructor writes the derived "size" into *)
(* the object it was handed.  The model therefore keeps a heap of font     *)
(* mappings; a formatter's five font attributes are references into it.    *)
(* A figure is a caller-owned object with the four capabilities that       *)
(* standardize uses; the values it is handed are copied into it.           *)
(*                                                                         *)
(* Ratios are floats in the source.  They are modelled as exact hundredths *)
(* (0.95 is 95); for the ratios used here (0.5, 0.9, 0.95, 1.0, 1.2) and   *)
(* every size below 5000, int(size * ratio) in double arithmetic equals    *)
(* the exact truncation.                                                   *)
(***************************************************************************)
EXTENDS Integers, Sequences, FiniteSets, TLC

VARIABLES
    heap,        \* the font mappings: heap[r] is the mapping with reference r
    formatters,  \* the PlotlyFormatter objects constructed so far, in order
    fig,         \* the caller's figure
    call         \* the API call that produced this state

vars == <<heap, formatters, fig, call>>

(* Bounds of the model. *)
MaxFormatters == 2
MaxAnnotations == 2

(***************************************************************************)
(* __init__                                                                *)
(***************************************************************************)

FontKeys == {"title_font", "subtitle_font", "axis_title_font", "tick_font", "legend_font"}

(* The font mappings the `defaults` literal creates, anew on every call.   *)
DefaultFonts ==
    << [size |-> 24, family |-> "Arial", color |-> "black"],
       [family |-> "Arial", color |-> "black"],
       [family |-> "Arial", color |-> "black"],
       [family |-> "Arial", color |-> "black"],
       [family |-> "Arial", color |-> "black"] >>

(* The `defaults` dict of a call whose fresh font mappings were allocated  *)
(* at heap references base+1 .. base+5.                                    *)
defaults(base) ==
    [ title_font        |-> base + 1,
      subtitle_font     |-> base + 2,
      subtitle_ratio    |-> 95,
      axis_title_font   |-> base + 3,
      axis_title_ratio  |-> 90,
      tick_font         |-> base + 4,
      tick_font_ratio   |-> 90,
      legend_font       |-> base + 5,
      legend_font_ratio |-> 90,
      showgrid          |-> TRUE,
      gridcolor         |-> "LightGray",
      gridwidth         |-> 1,
      template          |-> "simple_white",
      title_x           |-> 50,
      width             |-> 3200,
      height            |-> 800 ]

RecognizedKeys == DOMAIN defaults(0)

(* kwargs.get(key, value) *)
Get(kwargs, key, value) == IF key \in DOMAIN kwargs THEN kwargs[key] ELSE value

(* A merge that absorbs every supplied key, recognized or not. *)
AttributesOfAllKeys(kwargs, base) ==
    [key \in RecognizedKeys \cup DOMAIN kwargs |->
        IF key \in DOMAIN kwargs THEN kwargs[key] ELSE defaults(base)[key]]

(* for key, value in defaults.items(): setattr(self, key, kwargs.get(key, value)) *)
Attributes(kwargs, base) ==
    [key \in RecognizedKeys |-> Get(kwargs, key, defaults(base)[key])]

(* A derivation that rounds to the nearest integer. *)
RoundedSize(size, ratio) == (size * ratio + 50) \div 100

(* int(size * ratio): the product, truncated toward zero. *)
DerivedSize(size, ratio) ==
    IF size * ratio >= 0 THEN (size * ratio) \div 100
                         ELSE -((-(size * ratio)) \div 100)

(* mapping["size"] = value, on the mapping with reference ref *)
SetSize(h, ref, value) ==
    [h EXCEPT ![ref] =
        [k \in DOMAIN h[ref] \cup {"size"} |-> IF k = "size" THEN value ELSE h[ref][k]]]

(* The four assignments that end __init__, in their order; each reads the  *)
(* heap the previous one wrote.                                            *)
DeriveSizes(h, self) ==
    LET h1 == SetSize(h, self.subtitle_font,
                      DerivedSize(h[self.title_font].size, self.subtitle_ratio))
        h2 == SetSize(h1, self.axis_title_font,
                      DerivedSize(h1[self.title_font].size, self.axis_title_ratio))
        h3 == SetSize(h2, self.tick_font,
                      DerivedSize(h2[self.axis_title_font].size, self.tick_font_ratio))
        h4 == SetSize(h3, self.legend_font,
                      DerivedSize(h3[self.title_font].size, self.legend_font_ratio))
    IN  h4

(* The options of one call: a mapping from keys to values.  A font option   *)
(* is the reference of a mapping the caller owns.                          *)
NoOptions == [k \in {} |-> 0]

(* dict.update: the keys of `new` override, every other key is kept. *)
Update(d, new) ==
    [k \in DOMAIN d \cup DOMAIN new |-> IF k \in DOMAIN new THEN new[k] ELSE d[k]]

(* The caller owns two font mappings, at references 1 and 2. *)
SizeChoices == {17, 30}

CallerFonts ==
    { << [size |-> s, family |-> "Courier", color |-> "navy"],
         [size |-> 12, family |-> "Arial", color |-> "black"] >> : s \in SizeChoices }

(* The options of the calls: none; one mapping given for two font options; *)
(* a mapping for one font option; ratios and scalars; keys that are no     *)
(* options at all.                                                         *)
Options ==
    { NoOptions,
      [title_font |-> 1, subtitle_font |-> 1],
      [subtitle_font |-> 1, subtitle_ratio |-> 50],
      [axis_title_font |-> 2, tick_font |-> 2, tick_font_ratio |-> 120],
      [title_font |-> 2, legend_font |-> 1, legend_font_ratio |-> 100,
       showgrid |-> FALSE, template |-> "plotly_dark", title_x |-> 0, width |-> 640],
      [title_font |-> 1, title_size |-> 40, theme |-> "dark", title_x |-> 100,
       gridwidth |-> 2] }

(* The sizes of a formatter's five fonts, read through its references. *)
Sizes(h, self) ==
    [ title      |-> h[self.title_font].size,
      subtitle   |-> h[self.subtitle_font].size,
      axis_title |-> h[self.axis_title_font].size,
      tick       |-> h[self.tick_font].size,
      legend     |-> h[self.legend_font].size ]

\* PlotlyFormatter(kwargs): the whole of __init__
Construct(kwargs) ==
    /\ Len(formatters) < MaxFormatters
    /\ LET base == Len(heap)
           h0   == heap \o DefaultFonts
           self == Attributes(kwargs, base)
       IN  /\ heap' = DeriveSizes(h0, self)
           /\ formatters' = Append(formatters, self)
           /\ call' = [ op     |-> "construct",
                        kwargs |-> kwargs,
                        self   |-> Len(formatters) + 1,
                        s      |-> h0[self.title_font].size ]
    /\ UNCHANGED fig

(***************************************************************************)
(* The figure: a caller-owned object.  `caps` are the capabilities it      *)
(* exposes; yaxis, xaxis and layout are its property mappings.  A property *)
(* that was never set is a key the mapping does not hold.                  *)
(***************************************************************************)

Capabilities == {"update_yaxes", "update_xaxes", "update_layout", "layout"}

(* The keyword arguments of fig.update_yaxes and of fig.update_xaxes: the  *)
(* same five, read from the same attributes.                               *)
AxisStyle(self, h) ==
    [ title_font |-> h[self.axis_title_font],
      tickfont   |-> h[self.tick_font],
      showgrid   |-> self.showgrid,
      gridcolor  |-> self.gridcolor,
      gridwidth  |-> self.gridwidth ]

(* The keyword arguments of fig.update_layout, with title_x applied too. *)
LayoutStyleWithTitleX(self, h) ==
    [ title_font  |-> h[self.title_font],
      title_x     |-> self.title_x,
      legend_font |-> h[self.legend_font],
      template    |-> self.template,
      height      |-> self.height,
      width       |-> self.width ]

(* The keyword arguments of fig.update_layout; title_x is not among them. *)
LayoutStyle(self, h) ==
    [ title_font  |-> h[self.title_font],
      legend_font |-> h[self.legend_font],
      template    |-> self.template,
      height      |-> self.height,
      width       |-> self.width ]

(* An x-axis update that leaves the grid settings out. *)
update_xaxes_fonts_only(f, self, h) ==
    [f EXCEPT !.xaxis =
        Update(@, [title_font |-> h[self.axis_title_font], tickfont |-> h[self.tick_font]])]

update_yaxes(f, self, h) == [f EXCEPT !.yaxis = Update(@, AxisStyle(self, h))]

update_xaxes(f, self, h) == [f EXCEPT !.xaxis = Update(@, AxisStyle(self, h))]

update_layout(f, self, h) == [f EXCEPT !.layout = Update(@, LayoutStyle(self, h))]

(* An annotation pass that adds a subtitle annotation of its own. *)
add_annotation(f, self, h) ==
    IF "annotations" \in DOMAIN f.layout
    THEN [f EXCEPT !.layout.annotations =
            Append([n \in 1..Len(@) |-> Update(@[n], [font |-> h[self.subtitle_font]])],
                   [text |-> "", font |-> h[self.subtitle_font]])]
    ELSE f

(* An annotation pass that restyles the first annotation only. *)
update_first_annotation(f, self, h) ==
    IF "annotations" \in DOMAIN f.layout /\ f.layout.annotations # <<>>
    THEN [f EXCEPT !.layout.annotations[1] = Update(@, [font |-> h[self.subtitle_font]])]
    ELSE f

(* if "annotations" in fig["layout"]: every annotation's font is assigned. *)
update_annotations(f, self, h) ==
    IF "annotations" \in DOMAIN f.layout /\ f.layout.annotations # <<>>
    THEN [f EXCEPT !.layout.annotations =
            [n \in 1..Len(@) |-> Update(@[n], [font |-> h[self.subtitle_font]])]]
    ELSE f

(* A standardize that looks for every capability before it touches the    *)
(* figure.                                                                *)
standardize_all_or_nothing(self, h, f) ==
    IF Capabilities \subseteq f.caps
    THEN [fig |-> update_annotations(update_layout(update_xaxes(update_yaxes(f, self, h),
                                                                 self, h), self, h), self, h),
          steps |-> 4, outcome |-> "ok"]
    ELSE [fig |-> f, steps |-> 0, outcome |-> "error"]

(* standardize(self, fig): the four steps in their order.  A step whose   *)
(* capability the figure lacks raises, and the call ends there; `steps`   *)
(* counts the steps that ran.                                             *)
standardize(self, h, f) ==
    IF "update_yaxes" \notin f.caps
    THEN [fig |-> f, steps |-> 0, outcome |-> "error"]
    ELSE LET f1 == update_yaxes(f, self, h) IN
    IF "update_xaxes" \notin f.caps
    THEN [fig |-> f1, steps |-> 1, outcome |-> "error"]
    ELSE LET f2 == update_xaxes(f1, self, h) IN
    IF "update_layout" \notin f.caps
    THEN [fig |-> f2, steps |-> 2, outcome |-> "error"]
    ELSE LET f3 == update_layout(f2, self, h) IN
    IF "layout" \notin f.caps
    THEN [fig |-> f3, steps |-> 3, outcome |-> "error"]
    ELSE [fig |-> update_annotations(f3, self, h), steps |-> 4, outcome |-> "ok"]

(***************************************************************************)
(* The figures the caller may hold.                                        *)
(***************************************************************************)

FigureFont == [family |-> "Times", size |-> 9, color |-> "gray"]

StyledAxis(text) ==
    [title_text |-> text, title_font |-> FigureFont, showgrid |-> FALSE, gridwidth |-> 3]

AxisChoices ==
    { [y |-> [title_text |-> "y"], x |-> [title_text |-> "x"]],
      [y |-> [title_text |-> "y"], x |-> StyledAxis("x")] }

(* One list of annotations of every length up to MaxAnnotations: those    *)
(* at odd places carry no font, those at even places carry one.           *)
AnnotationLists ==
    { [k \in 1..n |-> IF k % 2 = 1 THEN [text |-> "note"]
                                   ELSE [text |-> "sub", font |-> FigureFont]] :
      n \in 0..MaxAnnotations }

PlainLayout == [title_text |-> "Sales"]

StyledLayout == [title_text |-> "Sales", title_x |-> 10, template |-> "ggplot2", width |-> 500]

(* A layout without the annotations key, and layouts with it. *)
LayoutChoices ==
    {PlainLayout} \cup { Update(StyledLayout, [annotations |-> a]) : a \in AnnotationLists }

(* Figures of the plotting library expose every capability; an object that *)
(* lacks one is some other argument.                                       *)
FigureStates ==
    { [caps |-> Capabilities, yaxis |-> a.y, xaxis |-> a.x, layout |-> l] :
        a \in AxisChoices, l \in LayoutChoices }
    \cup
    { [caps |-> Capabilities \ {c}, yaxis |-> [title_text |-> "y"],
       xaxis |-> StyledAxis("x"),
       layout |-> [title_text |-> "Sales", title_x |-> 10,
                   annotations |-> <<[text |-> "note"]>>]] :
        c \in Capabilities }

(***************************************************************************)
(* The operations.                                                         *)
(***************************************************************************)

Init ==
    /\ heap \in CallerFonts
    /\ formatters = <<>>
    /\ fig \in FigureStates
    /\ call = [op |-> "none"]

(* A standardize that also takes the figure's width as the formatter's. *)
StandardizeAdoptingWidth(i) ==
    /\ i \in 1..Len(formatters)
    /\ LET r == standardize(formatters[i], heap, fig)
       IN  /\ fig' = r.fig
           /\ call' = [ op |-> "standardize", self |-> i, outcome |-> r.outcome,
                        steps |-> r.steps,
                        again |-> call.op = "standardize" /\ call.self = i ]
    /\ formatters' = [formatters EXCEPT ![i].width =
                        IF "width" \in DOMAIN fig.layout THEN fig.layout.width ELSE @]
    /\ UNCHANGED heap

\* formatters[i].standardize(fig)
Standardize(i) ==
    /\ i \in 1..Len(formatters)
    /\ LET r == standardize(formatters[i], heap, fig)
       IN  /\ fig' = r.fig
           /\ call' = [ op |-> "standardize", self |-> i, outcome |-> r.outcome,
                        steps |-> r.steps,
                        again |-> call.op = "standardize" /\ call.self = i ]
    /\ UNCHANGED <<heap, formatters>>

\* The caller, who owns the figure, gives it another layout.
ChangeFigure(layout) ==
    /\ layout # fig.layout
    /\ fig' = [fig EXCEPT !.layout = layout]
    /\ call' = [op |-> "change"]
    /\ UNCHANGED <<heap, formatters>>

Next ==
    \/ \E kwargs \in Options : Construct(kwargs)
    \/ \E i \in 1..MaxFormatters : Standardize(i)
    \/ \E layout \in LayoutChoices : ChangeFigure(layout)

Spec == Init /\ [][Next]_vars

(***************************************************************************)
(* Properties.                                                             *)
(***************************************************************************)

(* floor(size * ratio), the ratio in hundredths *)
Floor(size, ratio) == (size * ratio) \div 100

(* The formatter the last call constructed or used. *)
Self == formatters[call.self]

Constructed == call.op = "construct"

Standardized == call.op = "standardize" /\ call.outcome = "ok"

(* The annotations of a figure; none when the layout has no such key. *)
Annotations(f) ==
    IF "annotations" \in DOMAIN f.layout THEN f.layout.annotations ELSE <<>>

(* The title alignment of a figure, set or not. *)
TitleX(f) ==
    IF "title_x" \in DOMAIN f.layout THEN [set |-> TRUE, x |-> f.layout.title_x]
                                     ELSE [set |-> FALSE]

AxisKeys == {"title_font", "tickfont", "showgrid", "gridcolor", "gridwidth"}

LayoutKeys == {"title_font", "legend_font", "template", "height", "width"}

(* Mapping d holds, at every key of keys, the value mapping style holds. *)
Applied(d, style, keys) ==
    \A k \in keys : k \in DOMAIN d /\ d[k] = style[k]

(* C1: after every construction with title font size s, the sizes are      *)
(* subtitle = floor(s * subtitle_ratio), axis title = floor(s *            *)
(* axis_title_ratio), tick = floor(axis title size * tick_font_ratio) and  *)
(* legend = floor(s * legend_font_ratio), whatever sizes the caller's font *)
(* mappings held.                                                          *)
C1_DerivedSizes ==
    Constructed =>
        LET z == Sizes(heap, Self)
        IN  /\ z.subtitle   = Floor(call.s, Self.subtitle_ratio)
            /\ z.axis_title = Floor(call.s, Self.axis_title_ratio)
            /\ z.tick       = Floor(z.axis_title, Self.tick_font_ratio)
            /\ z.legend     = Floor(call.s, Self.legend_font_ratio)

(* C2: a construction with no options yields the sizes 24, 22, 21, 18 and  *)
(* 21, however many formatters were constructed before it.                 *)
C2_DefaultSizes ==
    (Constructed /\ DOMAIN call.kwargs = {}) =>
        Sizes(heap, Self) =
            [title |-> 24, subtitle |-> 22, axis_title |-> 21, tick |-> 18, legend |-> 21]

C2_Witness ==
    /\ Constructed
    /\ DOMAIN call.kwargs = {}
    /\ call.self > 1
    /\ formatters[1].title_font = 1
    /\ Sizes(heap, Self).tick = 18

(* C3: a standardize that directly follows a standardize of the same       *)
(* formatter on the same figure leaves the figure as the first left it.    *)
C3_Idempotent ==
    [][(call'.op = "standardize" /\ call'.again) => fig' = fig]_vars

C3_Witness ==
    /\ Standardized
    /\ call.again
    /\ Len(Annotations(fig)) = MaxAnnotations
    /\ fig.xaxis.title_font = heap[Self.axis_title_font]

C5_Annotations ==
    [][(call'.op = "standardize" /\ call'.outcome = "ok") =>
          /\ Len(Annotations(fig')) = Len(Annotations(fig))
          /\ ("annotations" \in DOMAIN fig'.layout) = ("annotations" \in DOMAIN fig.layout)
          /\ \A n \in 1..Len(Annotations(fig')) :
                /\ "font" \in DOMAIN Annotations(fig')[n]
                /\ Annotations(fig')[n].font = heap'[formatters'[call'.self].subtitle_font]
                /\ Annotations(fig')[n].text = Annotations(fig)[n].text]_vars

C5_Witness ==
    /\ Standardized
    /\ Len(Annotations(fig)) = MaxAnnotations
    /\ \A n \in 1..MaxAnnotations : Annotations(fig)[n].font = heap[Self.subtitle_font]
    /\ heap[Self.subtitle_font].family = "Courier"

Recognized(kwargs) == [key \in DOMAIN kwargs \cap RecognizedKeys |-> kwargs[key]]

(* C7: a construction from options that hold unrecognized keys yields the  *)
(* sixteen attributes, and the font mappings, that the same options        *)
(* without those keys yield; an option that is not supplied holds its      *)
(* default.                                                                *)
C7_UnrecognizedIgnored ==
    [][(call'.op = "construct" /\ Len(formatters') = Len(formatters) + 1) =>
          LET kwargs == call'.kwargs
              base   == Len(heap)
              self   == formatters'[Len(formatters')]
              plain  == Attributes(Recognized(kwargs), base)
          IN  /\ DOMAIN self = RecognizedKeys
              /\ self = plain
              /\ heap' = DeriveSizes(heap \o DefaultFonts, plain)
              /\ \A key \in RecognizedKeys \ DOMAIN kwargs :
                    /\ self[key] = defaults(base)[key]
                    /\ key \in FontKeys =>
                          /\ heap'[self[key]].family = "Arial"
                          /\ heap'[self[key]].color = "black"
                    /\ key = "title_font" => heap'[self[key]].size = 24]_vars

C7_Witness ==
    /\ Constructed
    /\ {"title_size", "title_x"} \subseteq DOMAIN call.kwargs
    /\ DOMAIN Self = RecognizedKeys
    /\ Self.title_x = 100
    /\ Self.width = 3200

(* C8: standardize and later changes to the figure leave every attribute   *)
(* of every formatter, and every font mapping, as they were.               *)
C8_FormatterUntouched ==
    [][call'.op \in {"standardize", "change"} =>
          /\ formatters' = formatters
          /\ heap' = heap]_vars

C8_Witness ==
    /\ call.op = "change"
    /\ Len(formatters) = MaxFormatters
    /\ "tickfont" \in DOMAIN fig.yaxis
    /\ fig.yaxis.tickfont = heap[formatters[1].tick_font]
    /\ "legend_font" \notin DOMAIN fig.layout

(* C9: the title font size and the four derived sizes of a formatter keep  *)
(* the values of its construction across every later operation.            *)
C9_SizesFixed ==
    [][\A i \in 1..Len(formatters) :
          Sizes(heap', formatters'[i]) = Sizes(heap, formatters[i])]_vars

(* The capability each of the four steps needs, in the steps' order. *)
StepCapability == <<"update_yaxes", "update_xaxes", "update_layout", "layout">>

(* C10 as stated: a standardize that ends with the error leaves the figure *)
(* in the state it had before the call.                                    *)
C10_AllOrNothing ==
    [][call'.op = "standardize" =>
          \/ call'.outcome = "ok" /\ call'.steps = 4
          \/ call'.outcome = "error" /\ fig' = fig]_vars

(* C10, amended: a standardize succeeds with all four steps applied, or    *)
(* ends with the error of the first step whose capability the figure       *)
(* lacks; the steps before that one stay applied, that step and the later  *)
(* ones are not applied.                                                   *)
C10_PrefixApplied ==
    [][call'.op = "standardize" =>
          LET k    == call'.steps
              self == formatters[call'.self]
          IN  /\ k \in 0..4
              /\ (call'.outcome = "ok") = (k = 4)
              /\ call'.outcome \in {"ok", "error"}
              /\ \A j \in 1..k : StepCapability[j] \in fig.caps
              /\ k < 4 => StepCapability[k + 1] \notin fig.caps
              /\ IF k >= 1 THEN Applied(fig'.yaxis, AxisStyle(self, heap), AxisKeys)
                           ELSE fig'.yaxis = fig.yaxis
              /\ IF k >= 2 THEN Applied(fig'.xaxis, AxisStyle(self, heap), AxisKeys)
                           ELSE fig'.xaxis = fig.xaxis
              /\ IF k >= 3 THEN Applied(fig'.layout, LayoutStyle(self, heap), LayoutKeys)
                           ELSE fig'.layout = fig.layout
              /\ IF k >= 4
                 THEN \A n \in 1..Len(Annotations(fig')) :
                         Annotations(fig')[n].font = heap[self.subtitle_font]
                 ELSE Annotations(fig') = Annotations(fig)]_vars

C10_Witness ==
    /\ call.op = "standardize"
    /\ call.outcome = "error"
    /\ call.steps = 2
    /\ Applied(fig.xaxis, AxisStyle(Self, heap), AxisKeys)
    /\ "template" \notin DOMAIN fig.layout

====
